---- MODULE Spec2Model ----
(***************************************************************************)
(* EPREL registry client (databases/eprel/scripts/eprel_client.py):        *)
(* the rate-limited, retrying request loop of EPRELClient._request, the    *)
(* label download and the paginated generator fetch_all_products.          *)
(*                                                                         *)
(* Time is counted in ticks; one second is TicksPerSecond ticks.  The       *)
(* client reads time.monotonic() only to subtract self._last_request_time  *)
(* from it, so the state keeps that difference (elapsed), saturating at    *)
(* ElapsedCap.  One client instance is used by one thread, except in the   *)
(* specification ThreadsSpec, where several threads share one instance.    *)
(***************************************************************************)
EXTENDS Integers, Sequences, FiniteSets, TLC

VARIABLES
    elapsed,            \* time.monotonic() - self._last_request_time
    gap,                \* history: the last recorded timestamp minus the one before
    calls,              \* history: outbound calls issued by the client (0, 1, 2 = more)
    pc,                 \* position of the client's thread
    api_key,            \* the api_key argument of EPRELClient.__init__
    headers,            \* self.session.headers
    call,               \* history: the public operation last called, with its category
    caller,             \* the public operation that is running _request
    method,             \* HTTP method of the running _request
    path,               \* path of the running _request, split at "/"
    params,             \* query parameters of the running _request
    attempt,            \* loop variable of _request
    last_exception,     \* local of _request
    wait_time,          \* local of _request, seconds
    outcomes,           \* history: outcome of each attempt of the running/last _request
    sleeps,             \* history: backoff sleeps of the running/last _request
    reqResult,          \* how the last _request ended
    opResult,           \* how the last public operation ended
    outputDir,          \* whether the directory output_dir exists
    labelFile,          \* content of output_dir/Label_{id}.svg
    labelReply,         \* history: what the GET of the last download_label met
    gen,                \* frame of the fetch_all_products generator
    server,             \* behaviour of the registry for listings
    yielded,            \* history: batches the generator yielded
    listingCalls,       \* history: list_products calls made by the generator
    threads,            \* position and pending sleep of each thread sharing the client
    qr_url,             \* the argument of extract_eprel_id
    eprel_id,           \* what extract_eprel_id returned
    rate_sleep,         \* history: what the rate-limit step underway asked time.sleep for
    import_eprel,       \* frame and history of import_eprel.main
    run_import,         \* frame and history of run_import.main (serbian-prices)
    clients             \* pacing state of each of several EPRELClient instances

vars == << elapsed, gap, calls, pc, api_key, headers, call, caller, method, path,
           params, attempt, last_exception, wait_time, outcomes, sleeps,
           reqResult, opResult, outputDir, labelFile, labelReply, gen, server,
           yielded, listingCalls, threads, qr_url, eprel_id, rate_sleep,
           import_eprel, run_import, clients >>

\* The scripts that drive a client, and the clients of InstancesSpec.
programs == << import_eprel, run_import, clients >>

\* The session's headers, and what only the specifications of the threads, of
\* extract_eprel_id, of the scripts and of the instances change.
apart == << api_key, headers, threads, qr_url, eprel_id, programs >>

\* What the steps outside the two rate-limit blocks leave alone.
others == << apart, rate_sleep >>

---------------------------------------------------------------------------
(* Bounds of the model *)

TicksPerInterval == 2   \* clock resolution: ticks in one MIN_REQUEST_INTERVAL
MaxDrift == 1           \* how late a time.sleep may return, and time between two clock reads
MaxTotal == 3           \* largest total the registry reports
MaxPageSize == 2        \* largest page_size argument
MaxPagesArg == 2        \* largest max_pages argument
MaxTail == 3            \* most characters after the host in a qr_url
MaxCategories == 2      \* most --category arguments of import_eprel
MaxIds == 2             \* most batches one category of import_eprel receives
MaxDatasets == 3        \* most datasets harvest_data finds
MaxResources == 3       \* most CSV resources harvest_data tries to download

---------------------------------------------------------------------------
(* Module constants of eprel_client.py *)

MAX_RETRIES == 3
RETRY_DELAY_SECONDS == 2
MAX_REQUESTS_PER_SECOND == 5

TicksPerSecond == MAX_REQUESTS_PER_SECOND * TicksPerInterval

\* 1.0 / MAX_REQUESTS_PER_SECOND seconds, in ticks
MIN_REQUEST_INTERVAL == TicksPerSecond \div MAX_REQUESTS_PER_SECOND

None == 0 - 1

\* None where a string is expected
NoneStr == "<None>"

\* The keys of PRODUCT_CATEGORIES.
CategoryKeys ==
    {"airconditioners", "dishwashers", "displays", "driers", "lamps",
     "lightsources", "localspaceheaters", "ovens",
     "professionalrefrigeratedstoragecabinets", "rangehoods",
     "refrigeratingappliances", "smartphones", "solidfuelboilers",
     "spaceheaters", "televisions", "tyres", "washerdriers", "washingmachines",
     "waterheaters"}

\* The dictionary is written once, at import; no statement assigns to it.
PRODUCT_CATEGORIES ==
    [k \in CategoryKeys |->
        IF k = "smartphones" THEN "smartphonestablets20231669" ELSE k]

\* A plausible slip: the category used as the path without a lookup.
CategoryPathUnchecked(category) == category

\* PRODUCT_CATEGORIES.get(category)
CategoryPath(category) ==
    IF category \in DOMAIN PRODUCT_CATEGORIES
    THEN PRODUCT_CATEGORIES[category]
    ELSE NoneStr

\* not category_path
NotPath(category_path) == category_path = NoneStr \/ category_path = ""

\* Categories the callers of the model pass: a key whose path differs from
\* it, a name that is no key, and a path that is no key.
Categories == {"smartphones", "phones", "smartphonestablets20231669"}

\* The products the callers of the model ask for.
ProductId == "12345"

RECURSIVE Pow2(_)
Pow2(n) == IF n = 0 THEN 1 ELSE 2 * Pow2(n - 1)

CeilDiv(a, b) == (a + b - 1) \div b

Max(a, b) == IF a >= b THEN a ELSE b
Min(a, b) == IF a <= b THEN a ELSE b

---------------------------------------------------------------------------
(* Documents, responses and exceptions *)

\* The items at offsets [a, b) of a category; an item is named by its offset.
Items(a, b) == [i \in 1..Max(b - a, 0) |-> a + i - 1]

NoDoc == [kind |-> "none", hits |-> << >>, total |-> 0]
ProductDoc == [kind |-> "product", hits |-> << >>, total |-> 0]
ListingDoc(hits, total) == [kind |-> "listing", hits |-> hits, total |-> total]

\* What session.request / session.get can come back with: a response with a
\* status code and a body that parses as JSON or not, or an exception of the
\* requests library.
Response(status, json, body) ==
    [exc |-> "none", status |-> status, json |-> json, body |-> body]
Failure(exc) == [exc |-> exc, status |-> 0, json |-> FALSE, body |-> NoDoc]

\* No call was made.
NoReply == [exc |-> "no call", status |-> 0, json |-> FALSE, body |-> NoDoc]

ErrorStatuses == {404, 429, 500, 503}
TransportFailures == {"ConnectionError", "ConnectTimeout", "ReadTimeout"}

NoException == [type |-> "none", status |-> 0, attempt |-> 0]
Exception(type, status, att) == [type |-> type, status |-> status, attempt |-> att]

NoResult == [kind |-> "none", doc |-> NoDoc, exc |-> NoException]
Returned(doc) == [kind |-> "return", doc |-> doc, exc |-> NoException]
Raised(exc) == [kind |-> "raise", doc |-> NoDoc, exc |-> exc]

---------------------------------------------------------------------------
(* The registry *)

\* Listing documents the registry may answer to GET {segment}?from=&size=.
\* An exact registry reports the constant total server.total and returns the
\* items at offsets [from, min(from + size, total)); any other registry
\* returns up to size items and reports any total up to server.total.  A
\* registry with server.partial may also leave 'hits', 'total' or both out of
\* the document.
PartialDocs(p) ==
    { [kind |-> "listing", hits |-> Items(p.from, p.from + n)] : n \in 0..p.size }
      \cup { [kind |-> "listing", total |-> t] : t \in 0..server.total }
      \cup { [kind |-> "listing"] }

ListingDocs(p) ==
    IF server.exact
    THEN { ListingDoc(Items(p.from, Min(p.from + p.size, server.total)), server.total) }
    ELSE { ListingDoc(Items(p.from, p.from + n), t) :
               n \in 0..p.size, t \in 0..server.total }
           \cup (IF server.partial THEN PartialDocs(p) ELSE {})

SuccessDocs(c, p) == IF c = "list_products" THEN ListingDocs(p) ELSE {ProductDoc}

\* Everything one attempt of _request can meet.
Replies(c, p) ==
    { Response(200, TRUE, d) : d \in SuccessDocs(c, p) }
      \cup { Response(200, FALSE, NoDoc) }
      \cup { Response(s, FALSE, NoDoc) : s \in ErrorStatuses }
      \cup { Failure(e) : e \in TransportFailures }

\* Everything the GET of download_label can meet.
LabelReplies ==
    { Response(s, FALSE, NoDoc) : s \in {200, 304} \cup ErrorStatuses }
      \cup { Failure(e) : e \in TransportFailures }

\* Time a network call takes; time by which a sleep returns late.
Latencies == 0..MIN_REQUEST_INTERVAL
Drifts == 0..MaxDrift

\* elapsed after d more ticks
ElapsedCap == MIN_REQUEST_INTERVAL + MaxDrift
Tick(e, d) == Min(e + d, ElapsedCap)

---------------------------------------------------------------------------
(* requests library: what the except clauses of the client match *)

\* response.raise_for_status() raises HTTPError for 4xx and 5xx.
RaisesForStatus(status) == status >= 400 /\ status < 600

\* except requests.exceptions.ConnectionError: ConnectTimeout derives from
\* ConnectionError and Timeout, ReadTimeout from Timeout alone.
IsConnectionError(exc) == exc \in {"ConnectionError", "ConnectTimeout"}

\* except requests.exceptions.RequestException: every exception of the library.
IsRequestException(exc) ==
    exc \in {"HTTPError", "ConnectionError", "ConnectTimeout", "ReadTimeout",
             "JSONDecodeError"}

---------------------------------------------------------------------------
(* EPRELClient.__init__ *)

\* The headers of a new requests.Session.
DefaultHeaders ==
    { << "User-Agent", "python-requests" >>, << "Accept-Encoding", "gzip, deflate" >>,
      << "Accept", "*/*" >>, << "Connection", "keep-alive" >> }

\* headers[name] = value
SetHeader(h, name, value) ==
    { p \in h : p[1] /= name } \cup { << name, value >> }

\* if api_key: None and the empty string are false
Truthy(s) == s /= NoneStr /\ s /= ""

\* A plausible slip: the key header set without looking at the key.
SessionHeadersAlways(key) ==
    SetHeader(SetHeader(DefaultHeaders, "x-api-key", key),
              "Accept", "application/json")

\* Lines 88-91: the session's headers after construction with api_key = key
SessionHeaders(key) ==
    SetHeader(IF Truthy(key)
              THEN SetHeader(DefaultHeaders, "x-api-key", key)
              ELSE DefaultHeaders,
              "Accept", "application/json")

\* The api_key arguments of the model.
ApiKeys == {NoneStr, "", "KEY"}

---------------------------------------------------------------------------
(* EPRELClient._request *)

\* for attempt in range(MAX_RETRIES)
InRange(i) == i < MAX_RETRIES

\* A plausible slip: a full interval slept whenever the call comes early.
RateLimitSleepFull(e) ==
    IF e < MIN_REQUEST_INTERVAL THEN MIN_REQUEST_INTERVAL ELSE 0

\* A plausible slip: sleeping for the time already elapsed.
RateLimitSleepElapsed(e) == IF e < MIN_REQUEST_INTERVAL THEN e ELSE 0

\* elapsed < MIN_REQUEST_INTERVAL: time.sleep(MIN_REQUEST_INTERVAL - elapsed)
RateLimitSleep(e) ==
    IF e < MIN_REQUEST_INTERVAL THEN MIN_REQUEST_INTERVAL - e ELSE 0

\* A plausible slip: the exponent left out.
WaitTime429Flat(i) == RETRY_DELAY_SECONDS

\* wait_time = RETRY_DELAY_SECONDS * (2 ** attempt) in the 429 branch, seconds
WaitTime429(i) == RETRY_DELAY_SECONDS * Pow2(i)

\* A plausible slip: a linear delay.
WaitTime5xxLinear(i) == RETRY_DELAY_SECONDS * (i + 1)

\* wait_time in the status >= 500 branch
WaitTime5xx(i) == RETRY_DELAY_SECONDS * Pow2(i)

\* wait_time in the ConnectionError branch
WaitTimeConnection(i) == RETRY_DELAY_SECONDS * Pow2(i)

\* A plausible slip: keeping the first failure.
RememberFirst(old, e) == IF old = NoException THEN e ELSE old

\* last_exception = e
Remember(old, e) == e

\* A plausible slip: every error status is retried.
OnHTTPErrorRetryAll(status, i) ==
    IF status = 429
    THEN [do |-> "backoff", wait |-> WaitTime429(i),
          exc |-> Exception("HTTPError", status, i)]
    ELSE [do |-> "backoff", wait |-> WaitTime5xx(i),
          exc |-> Exception("HTTPError", status, i)]

\* except requests.exceptions.HTTPError, at attempt i
OnHTTPError(status, i) ==
    IF status = 429
    THEN [do |-> "backoff", wait |-> WaitTime429(i),
          exc |-> Exception("HTTPError", status, i)]
    ELSE IF status >= 500
    THEN [do |-> "backoff", wait |-> WaitTime5xx(i),
          exc |-> Exception("HTTPError", status, i)]
    ELSE [do |-> "raise", wait |-> 0, exc |-> Exception("HTTPError", status, i)]

\* except requests.exceptions.ConnectionError, at attempt i
OnConnectionError(exc, i) ==
    [do |-> "backoff", wait |-> WaitTimeConnection(i), exc |-> Exception(exc, 0, i)]

\* A plausible slip: a body that does not parse handled like a lost connection.
ClassifyJsonRetried(o, i) ==
    IF o.exc /= "none"
    THEN IF IsConnectionError(o.exc)
         THEN OnConnectionError(o.exc, i)
         ELSE [do |-> "raise", wait |-> 0, exc |-> Exception(o.exc, 0, i)]
    ELSE IF RaisesForStatus(o.status)
    THEN OnHTTPError(o.status, i)
    ELSE IF o.json
    THEN [do |-> "return", wait |-> 0, exc |-> NoException]
    ELSE OnConnectionError("JSONDecodeError", i)

\* What _request does with the outcome o of attempt i: return the parsed
\* body, raise, or sleep wait seconds before the next attempt.  An exception
\* that no except clause matches leaves _request at once.
Classify(o, i) ==
    IF o.exc /= "none"
    THEN IF IsConnectionError(o.exc)
         THEN OnConnectionError(o.exc, i)
         ELSE [do |-> "raise", wait |-> 0, exc |-> Exception(o.exc, 0, i)]
    ELSE IF RaisesForStatus(o.status)
    THEN OnHTTPError(o.status, i)
    ELSE IF o.json
    THEN [do |-> "return", wait |-> 0, exc |-> NoException]
    ELSE [do |-> "raise", wait |-> 0, exc |-> Exception("JSONDecodeError", 0, i)]

\* params=None, and the keys a params dictionary holds
NoParams ==
    [keys |-> {}, manufacturer |-> "", tradeMark |-> "", from |-> 0, size |-> 0]

\* Entry of _request(method, path, params): last_exception = None, attempt = 0.
EnterRequest(c, m, pth, p) ==
    /\ caller' = c
    /\ method' = m
    /\ path' = pth
    /\ params' = p
    /\ attempt' = 0
    /\ last_exception' = NoException
    /\ wait_time' = 0
    /\ outcomes' = << >>
    /\ sleeps' = << >>
    /\ reqResult' = NoResult
    /\ pc' = "rate_limit"

\* _request has returned or raised: its frame is gone.
LeaveRequest ==
    /\ caller' = "none"
    /\ method' = "none"
    /\ path' = << >>
    /\ params' = NoParams
    /\ attempt' = 0
    /\ last_exception' = NoException
    /\ wait_time' = 0
    /\ outcomes' = << >>
    /\ sleeps' = << >>
    /\ reqResult' = NoResult

\* Lines 112-114: the wait before an attempt.
RateLimit ==
    /\ pc = "rate_limit"
    /\ InRange(attempt)
    /\ rate_sleep' = RateLimitSleep(elapsed)
    /\ \E d \in Drifts : elapsed' = Tick(elapsed, RateLimitSleep(elapsed) + d)
    /\ pc' = "send"
    /\ UNCHANGED << gap, calls, call, caller, method, path,
                    params, attempt, last_exception, wait_time, outcomes, sleeps,
                    reqResult, opResult, outputDir, labelFile, labelReply, gen,
                    server, yielded, listingCalls, apart >>

\* Lines 116-149 up to the backoff sleep: record the time, send, classify.
Send ==
    /\ pc = "send"
    /\ rate_sleep' = 0
    /\ gap' = elapsed
    /\ calls' = Min(calls + 1, 2)
    /\ \E o \in Replies(caller, params), l \in Latencies :
         LET c == Classify(o, attempt) IN
           /\ elapsed' = Tick(0, l)
           /\ outcomes' = Append(outcomes, o)
           /\ CASE c.do = "return" ->
                     /\ reqResult' = Returned(o.body)
                     /\ pc' = "req_done"
                     /\ UNCHANGED << last_exception, wait_time >>
                [] c.do = "raise" ->
                     /\ reqResult' = Raised(c.exc)
                     /\ pc' = "req_done"
                     /\ last_exception' =
                          IF c.exc.type = "HTTPError"
                          THEN Remember(last_exception, c.exc) ELSE last_exception
                     /\ UNCHANGED wait_time
                [] c.do = "backoff" ->
                     /\ last_exception' = Remember(last_exception, c.exc)
                     /\ wait_time' = c.wait
                     /\ pc' = "backoff"
                     /\ UNCHANGED reqResult
    /\ UNCHANGED << call, caller, method, path, params, attempt, sleeps, opResult,
                    outputDir, labelFile, labelReply, gen, server, yielded,
                    listingCalls, apart >>

\* time.sleep(wait_time), the end of the loop body, and line 151 after the loop.
Backoff ==
    /\ pc = "backoff"
    /\ \E d \in Drifts : elapsed' = Tick(elapsed, wait_time * TicksPerSecond + d)
    /\ sleeps' = Append(sleeps, [attempt |-> attempt, secs |-> wait_time])
    /\ attempt' = attempt + 1
    /\ IF InRange(attempt + 1)
       THEN pc' = "rate_limit" /\ UNCHANGED reqResult
       ELSE pc' = "req_done" /\ reqResult' = Raised(last_exception)
    /\ UNCHANGED << gap, calls, call, caller, method, path,
                    params, last_exception, wait_time, outcomes, opResult,
                    outputDir, labelFile, labelReply, gen, server, yielded,
                    listingCalls, others >>

---------------------------------------------------------------------------
(* The public operations and their category argument *)

NoCall == [op |-> "none", category |-> NoneStr]
Call(op, category) == [op |-> op, category |-> category]

\* raise ValueError(f"Unknown category: {category}. ...")
ValueError == Exception("ValueError", 0, 0)

\* The arguments, locals and history of _request.
requestVars == << caller, method, path, params, attempt, last_exception,
                wait_time, outcomes, sleeps, reqResult >>

---------------------------------------------------------------------------
(* EPRELClient.get_product *)

\* Lines 167-174: look the category up, then call _request.
CallGetProduct ==
    /\ pc = "idle"
    /\ \E category \in Categories :
         LET category_path == CategoryPath(category) IN
           /\ call' = Call("get_product", category)
           /\ IF NotPath(category_path)
              THEN /\ opResult' = Raised(ValueError)
                   /\ UNCHANGED << pc, requestVars >>
              ELSE /\ opResult' = NoResult
                   /\ EnterRequest("get_product", "GET",
                                   << category_path, ProductId >>, NoParams)
    /\ labelReply' = NoReply
    /\ UNCHANGED << elapsed, gap, calls, outputDir,
                    labelFile, gen, server, yielded, listingCalls, others >>

\* return self._request("GET", path)
GetProductReturn ==
    /\ pc = "req_done"
    /\ caller = "get_product"
    /\ opResult' = reqResult
    /\ pc' = "idle"
    /\ LeaveRequest
    /\ UNCHANGED << elapsed, gap, calls, call, outputDir, labelFile, labelReply,
                    gen, server, yielded, listingCalls, others >>

---------------------------------------------------------------------------
(* EPRELClient.get_label_url and EPRELClient.download_label *)

LabelUrl == [kind |-> "url", hits |-> << >>, total |-> 0]
LabelPath == [kind |-> "path", hits |-> << >>, total |-> 0]
NoneValue == [kind |-> "None", hits |-> << >>, total |-> 0]

\* Lines 267-276: look the category up, then format the URL.
CallGetLabelUrl ==
    /\ pc = "idle"
    /\ \E category \in Categories :
         /\ call' = Call("get_label_url", category)
         /\ opResult' = IF NotPath(CategoryPath(category))
                        THEN Raised(ValueError)
                        ELSE Returned(LabelUrl)
    /\ labelReply' = NoReply
    /\ UNCHANGED << elapsed, gap, calls, pc, requestVars, outputDir, labelFile,
                    gen, server, yielded, listingCalls, others >>

\* A plausible slip: the label download not paced.
LabelRateLimitSleepNone(e) == 0

\* elapsed < MIN_REQUEST_INTERVAL: time.sleep(MIN_REQUEST_INTERVAL - elapsed)
LabelRateLimitSleep(e) ==
    IF e < MIN_REQUEST_INTERVAL THEN MIN_REQUEST_INTERVAL - e ELSE 0

\* A plausible slip: the directory made before the category is looked up.
CallDownloadLabelDirFirst ==
    /\ pc = "idle"
    /\ \E category \in Categories, disk \in {"ok", "OSError"} :
         /\ call' = Call("download_label", category)
         /\ IF disk = "OSError" /\ outputDir = "absent"
            THEN /\ opResult' = Raised(Exception("OSError", 0, 0))
                 /\ UNCHANGED << pc, outputDir >>
            ELSE IF NotPath(CategoryPath(category))
            THEN /\ opResult' = Raised(ValueError)
                 /\ outputDir' = "present"
                 /\ UNCHANGED pc
            ELSE /\ opResult' = NoResult
                 /\ outputDir' = "present"
                 /\ pc' = "label_rate_limit"
    /\ labelReply' = NoReply
    /\ UNCHANGED << elapsed, gap, calls, requestVars, labelFile, gen, server,
                    yielded, listingCalls, others >>

\* Lines 289-293: get_label_url, then os.makedirs(output_dir, exist_ok=True),
\* which fails with an OSError where the directory cannot be made.
CallDownloadLabel ==
    /\ pc = "idle"
    /\ \E category \in Categories, disk \in {"ok", "OSError"} :
         /\ call' = Call("download_label", category)
         /\ IF NotPath(CategoryPath(category))
            THEN /\ opResult' = Raised(ValueError)
                 /\ UNCHANGED << pc, outputDir >>
            ELSE IF disk = "OSError" /\ outputDir = "absent"
            THEN /\ opResult' = Raised(Exception("OSError", 0, 0))
                 /\ UNCHANGED << pc, outputDir >>
            ELSE /\ opResult' = NoResult
                 /\ outputDir' = "present"
                 /\ pc' = "label_rate_limit"
    /\ labelReply' = NoReply
    /\ UNCHANGED << elapsed, gap, calls, requestVars, labelFile, gen, server,
                    yielded, listingCalls, others >>

\* Lines 296-298.
LabelRateLimit ==
    /\ pc = "label_rate_limit"
    /\ rate_sleep' = LabelRateLimitSleep(elapsed)
    /\ \E d \in Drifts : elapsed' = Tick(elapsed, LabelRateLimitSleep(elapsed) + d)
    /\ pc' = "label_send"
    /\ UNCHANGED << gap, calls, call, requestVars, opResult, outputDir, labelFile,
                    labelReply, gen, server, yielded, listingCalls, apart >>

\* Lines 300-312: record the time, GET, store the body or give up.
LabelSend ==
    /\ pc = "label_send"
    /\ rate_sleep' = 0
    /\ gap' = elapsed
    /\ calls' = Min(calls + 1, 2)
    /\ pc' = "idle"
    /\ \E o \in LabelReplies, l \in Latencies, disk \in {"ok", "OSError"} :
         /\ elapsed' = Tick(0, l)
         /\ labelReply' = o
         /\ IF o.exc /= "none"
            THEN /\ IsRequestException(o.exc)
                 /\ opResult' = Returned(NoneValue)
                 /\ UNCHANGED labelFile
            ELSE IF RaisesForStatus(o.status)
            THEN opResult' = Returned(NoneValue) /\ UNCHANGED labelFile
            ELSE IF disk = "ok"
            THEN opResult' = Returned(LabelPath) /\ labelFile' = "new"
            ELSE /\ opResult' = Raised(Exception("OSError", 0, 0))
                 /\ UNCHANGED labelFile
    /\ UNCHANGED << call, requestVars, outputDir, gen, server, yielded,
                    listingCalls, apart >>

---------------------------------------------------------------------------
(* EPRELClient.list_products and EPRELClient.fetch_all_products *)

NoFrame == [state |-> "none", category |-> NoneStr, page |-> 0,
            max_pages |-> None, page_size |-> 1, result |-> NoDoc,
            exit |-> "none"]

\* A plausible slip: the page index sent as the offset.
ListParamsByPage(page, page_size) ==
    [keys |-> {"manufacturer", "tradeMark", "from", "size"},
     manufacturer |-> "", tradeMark |-> "",
     from |-> page, size |-> page_size]

\* Lines 198-203: the params dictionary of list_products
ListParams(page, page_size) ==
    [keys |-> {"manufacturer", "tradeMark", "from", "size"},
     manufacturer |-> "", tradeMark |-> "",
     from |-> page * page_size, size |-> page_size]

\* Lines 192-204, called by a caller of the client: look the category up,
\* then call _request.
CallListProducts ==
    /\ pc = "idle"
    /\ gen.state /= "running"
    /\ \E category \in Categories, page \in 0..1, page_size \in 1..MaxPageSize :
         LET category_path == CategoryPath(category) IN
           /\ call' = Call("list_products", category)
           /\ IF NotPath(category_path)
              THEN /\ opResult' = Raised(ValueError)
                   /\ UNCHANGED << pc, requestVars >>
              ELSE /\ opResult' = NoResult
                   /\ EnterRequest("list_products", "GET", << category_path >>,
                                   ListParams(page, page_size))
    /\ labelReply' = NoReply
    /\ UNCHANGED << elapsed, gap, calls, outputDir,
                    labelFile, gen, server, yielded, listingCalls, others >>

\* return self._request("GET", category_path, params=params), to that caller
ListProductsDone ==
    /\ pc = "req_done"
    /\ caller = "list_products"
    /\ gen.state /= "running"
    /\ opResult' = reqResult
    /\ pc' = "idle"
    /\ LeaveRequest
    /\ UNCHANGED << elapsed, gap, calls, call, outputDir, labelFile, labelReply,
                    gen, server, yielded, listingCalls, others >>

\* A plausible slip: > for >=.
ReachedMaxPagesLate(max_pages, page) == max_pages /= None /\ page > max_pages

\* max_pages is not None and page >= max_pages
ReachedMaxPages(max_pages, page) == max_pages /= None /\ page >= max_pages

\* result.get("hits", [])
GetHits(result) == IF "hits" \in DOMAIN result THEN result.hits ELSE << >>

\* A plausible slip: a document without 'total' read as one with no known end.
GetTotalMissingEndless(result) ==
    IF "total" \in DOMAIN result THEN result.total
    ELSE (gen.page + 2) * gen.page_size

\* result.get("total", 0)
GetTotal(result) == IF "total" \in DOMAIN result THEN result.total ELSE 0

\* A plausible slip: the empty batch is not looked at.
NoHitsIgnored(hits) == FALSE

\* not hits
NoHits(hits) == hits = << >>

\* A plausible slip: > for >=.
FetchedAllStrict(page, page_size, total) == (page + 1) * page_size > total

\* A plausible slip: the pages fetched counted from page, not page + 1.
FetchedAllOffByOne(page, page_size, total) == page * page_size >= total

\* fetched = (page + 1) * page_size; fetched >= total
FetchedAll(page, page_size, total) == (page + 1) * page_size >= total

\* A plausible slip: a page is skipped.
NextPageSkip(page) == page + 2

\* page += 1
NextPage(page) == page + 1

\* A plausible slip: the items yielded one by one.
YieldEach(batches, hits) ==
    batches \o [i \in 1..Len(hits) |-> << hits[i] >>]

\* yield hits
Yield(batches, hits) == Append(batches, hits)

\* Calling fetch_all_products creates the generator; none of its body runs.
CallFetchAll ==
    /\ pc = "idle"
    /\ gen.state \in {"none", "closed"}
    /\ \E category \in Categories, m \in {None} \cup 0..MaxPagesArg,
          s \in 1..MaxPageSize :
         /\ gen' = [NoFrame EXCEPT !.state = "created", !.category = category,
                                   !.max_pages = m, !.page_size = s]
         /\ call' = Call("fetch_all_products", category)
    /\ yielded' = << >>
    /\ listingCalls' = 0
    /\ labelReply' = NoReply
    /\ UNCHANGED << elapsed, gap, calls, pc, requestVars, opResult, outputDir,
                    labelFile, server, others >>

\* The top of the while loop with the given page (lines 219-229): leave the
\* loop at max_pages, or call list_products, which looks the category up and
\* calls _request.
LoopTop(page) ==
    IF ReachedMaxPages(gen.max_pages, page)
    THEN /\ gen' = [gen EXCEPT !.state = "closed", !.page = page, !.exit = "return"]
         /\ opResult' = NoResult
         /\ UNCHANGED << pc, requestVars, listingCalls >>
    ELSE /\ listingCalls' = listingCalls + 1
         /\ IF NotPath(CategoryPath(gen.category))
            THEN /\ gen' = [gen EXCEPT !.state = "closed", !.page = page,
                                       !.exit = "raise"]
                 /\ opResult' = Raised(ValueError)
                 /\ UNCHANGED << pc, requestVars >>
            ELSE /\ gen' = [gen EXCEPT !.state = "running", !.page = page]
                 /\ opResult' = NoResult
                 /\ EnterRequest("list_products", "GET",
                                 << CategoryPath(gen.category) >>,
                                 ListParams(page, gen.page_size))

\* The consumer's first next(): page = 0 and the loop begins.
GenStart ==
    /\ pc = "idle"
    /\ gen.state = "created"
    /\ LoopTop(0)
    /\ call' = Call("fetch_all_products", gen.category)
    /\ labelReply' = NoReply
    /\ UNCHANGED << elapsed, gap, calls, outputDir,
                    labelFile, server, yielded, others >>

\* A later next(): the code after the yield (lines 238-247), then the loop top.
GenResume ==
    /\ pc = "idle"
    /\ gen.state = "suspended"
    /\ IF FetchedAll(gen.page, gen.page_size, GetTotal(gen.result))
       THEN /\ gen' = [gen EXCEPT !.state = "closed", !.exit = "return"]
            /\ opResult' = NoResult
            /\ UNCHANGED << pc, requestVars, listingCalls >>
       ELSE LoopTop(NextPage(gen.page))
    /\ call' = Call("fetch_all_products", gen.category)
    /\ labelReply' = NoReply
    /\ UNCHANGED << elapsed, gap, calls, outputDir,
                    labelFile, server, yielded, others >>

\* A plausible slip: the failure of a page is caught and ends the sequence.
ListProductsReturnQuiet ==
    /\ pc = "req_done"
    /\ caller = "list_products"
    /\ gen.state = "running"
    /\ pc' = "idle"
    /\ IF reqResult.kind = "raise"
       THEN /\ gen' = [gen EXCEPT !.state = "closed", !.exit = "return"]
            /\ opResult' = NoResult
            /\ UNCHANGED yielded
       ELSE IF NoHits(GetHits(reqResult.doc))
       THEN /\ gen' = [gen EXCEPT !.state = "closed", !.exit = "return",
                                  !.result = reqResult.doc]
            /\ opResult' = NoResult
            /\ UNCHANGED yielded
       ELSE /\ gen' = [gen EXCEPT !.state = "suspended", !.result = reqResult.doc]
            /\ yielded' = Yield(yielded, GetHits(reqResult.doc))
            /\ opResult' = Returned(reqResult.doc)
    /\ LeaveRequest
    /\ UNCHANGED << elapsed, gap, calls, call, outputDir, labelFile, labelReply,
                    server, listingCalls, others >>

\* list_products returns or raises into the generator (lines 227-236).
ListProductsReturn ==
    /\ pc = "req_done"
    /\ caller = "list_products"
    /\ gen.state = "running"
    /\ pc' = "idle"
    /\ IF reqResult.kind = "raise"
       THEN /\ gen' = [gen EXCEPT !.state = "closed", !.exit = "raise"]
            /\ opResult' = reqResult
            /\ UNCHANGED yielded
       ELSE IF NoHits(GetHits(reqResult.doc))
       THEN /\ gen' = [gen EXCEPT !.state = "closed", !.exit = "return",
                                  !.result = reqResult.doc]
            /\ opResult' = NoResult
            /\ UNCHANGED yielded
       ELSE /\ gen' = [gen EXCEPT !.state = "suspended", !.result = reqResult.doc]
            /\ yielded' = Yield(yielded, GetHits(reqResult.doc))
            /\ opResult' = Returned(reqResult.doc)
    /\ LeaveRequest
    /\ UNCHANGED << elapsed, gap, calls, call, outputDir, labelFile, labelReply,
                    server, listingCalls, others >>

\* The consumer stops: the suspended generator is closed or dropped, and no
\* statement of its body runs any more.
GenAbandon ==
    /\ pc = "idle"
    /\ gen.state = "suspended"
    /\ gen' = [gen EXCEPT !.state = "closed", !.exit = "abandoned"]
    /\ UNCHANGED << elapsed, gap, calls, pc, call, requestVars, opResult,
                    outputDir, labelFile, labelReply, server, yielded,
                    listingCalls, others >>

\* What a generator raises to next() once its body has ended.
StopIteration == Exception("StopIteration", 0, 0)

\* A plausible slip: a demand on a sequence that has ended begins it again.
GenNextClosedRestart ==
    /\ pc = "idle"
    /\ gen.state = "closed"
    /\ LoopTop(0)
    /\ UNCHANGED << elapsed, gap, calls, call, outputDir, labelFile, labelReply,
                    server, yielded, others >>

\* next() on the generator after its body has returned, raised or been
\* closed: StopIteration, and no statement of the body runs.
GenNextClosed ==
    /\ pc = "idle"
    /\ gen.state = "closed"
    /\ opResult' = Raised(StopIteration)
    /\ UNCHANGED << elapsed, gap, calls, pc, call, requestVars, outputDir,
                    labelFile, labelReply, gen, server, yielded, listingCalls,
                    others >>

---------------------------------------------------------------------------
(* Threads sharing one client *)

\* Two threads call _request on the same client.  Each runs lines 112-122;
\* the interpreter switches threads between statements, and nothing in the
\* client keeps a thread out of these lines while another is in them.
Threads == {"a", "b"}
AtRest == [pc |-> "idle", sleep |-> 0]

\* What the threads of ThreadsSpec leave alone.
singleThread == << pc, api_key, headers, call, caller, method, path, params,
                   attempt, last_exception, wait_time, outcomes, sleeps,
                   reqResult, opResult, outputDir, labelFile, labelReply, gen,
                   server, yielded, listingCalls, qr_url, eprel_id, rate_sleep,
                   programs >>

\* Thread t calls an operation that enters the loop of _request.
ThreadCall(t) ==
    /\ threads[t].pc = "idle"
    /\ threads' = [threads EXCEPT ![t].pc = "check"]
    /\ UNCHANGED << elapsed, gap, calls, singleThread >>

\* Lines 112-114: read the clock and the timestamp, then sleep or go on.
ThreadCheck(t) ==
    /\ threads[t].pc = "check"
    /\ threads' = [threads EXCEPT
                     ![t] = IF RateLimitSleep(elapsed) > 0
                            THEN [pc |-> "sleeping", sleep |-> RateLimitSleep(elapsed)]
                            ELSE [pc |-> "record", sleep |-> 0]]
    /\ UNCHANGED << elapsed, gap, calls, singleThread >>

\* time.sleep returns once the time asked for has passed.
ThreadWake(t) ==
    /\ threads[t].pc = "sleeping"
    /\ threads[t].sleep = 0
    /\ threads' = [threads EXCEPT ![t].pc = "record"]
    /\ UNCHANGED << elapsed, gap, calls, singleThread >>

\* Line 117: self._last_request_time = time.monotonic()
ThreadRecord(t) ==
    /\ threads[t].pc = "record"
    /\ gap' = elapsed
    /\ calls' = Min(calls + 1, 2)
    /\ elapsed' = 0
    /\ threads' = [threads EXCEPT ![t].pc = "request"]
    /\ UNCHANGED singleThread

\* Lines 118-122: the request is sent and answered.
ThreadRequest(t) ==
    /\ threads[t].pc = "request"
    /\ threads' = [threads EXCEPT ![t].pc = "idle"]
    /\ UNCHANGED << elapsed, gap, calls, singleThread >>

\* One tick of time passes for every thread.
TimePasses ==
    /\ elapsed' = Tick(elapsed, 1)
    /\ threads' = [t \in Threads |->
                     [threads[t] EXCEPT !.sleep = Max(threads[t].sleep - 1, 0)]]
    /\ UNCHANGED << gap, calls, singleThread >>

---------------------------------------------------------------------------
(* extract_eprel_id *)

\* Strings are sequences of characters.
Http == << "h", "t", "t", "p" >>
Ftp == << "f", "t", "p" >>
QrHost ==
    << ":", "/", "/", "e", "p", "r", "e", "l", ".", "e", "c", "." >> \o
    << "e", "u", "r", "o", "p", "a", ".", "e", "u", "/", "q", "r", "/" >>
QrHostNoDots ==
    << ":", "/", "/", "e", "p", "r", "e", "l", "x", "e", "c", "." >> \o
    << "e", "u", "r", "o", "p", "a", ".", "e", "u", "/", "q", "r", "/" >>
ApiHost ==
    << ":", "/", "/", "e", "p", "r", "e", "l", ".", "e", "c", "." >> \o
    << "e", "u", "r", "o", "p", "a", ".", "e", "u", "/", "a", "p", "i", "/" >>

\* What \d matches, among the characters of the model
Digit == {"1", "7"}

\* The characters that follow the host in the URLs of the model.
TailChars == Digit \cup {"a", "/", "\n"}

RECURSIVE Strings(_, _)
Strings(alphabet, n) ==
    IF n = 0 THEN { << >> }
    ELSE LET shorter == Strings(alphabet, n - 1) IN
           shorter \cup { Append(s, c) : s \in shorter, c \in alphabet }

\* The qr_url arguments of the model.
QrUrls ==
    { lead \o scheme \o host \o tail :
        lead \in { << >>, << " " >> },
        scheme \in { Http, Http \o << "s" >>, Http \o << "s", "s" >>, Ftp },
        host \in { QrHost, QrHostNoDots, ApiHost },
        tail \in Strings(TailChars, MaxTail) }

\* The literal lit is in s at position i.
LiteralAt(s, i, lit) ==
    /\ i + Len(lit) - 1 <= Len(s)
    /\ SubSeq(s, i, i + Len(lit) - 1) = lit

\* (\d+) is greedy: the position after the digits that begin at i.
RECURSIVE DigitsEnd(_, _)
DigitsEnd(s, i) ==
    IF i <= Len(s) /\ s[i] \in Digit THEN DigitsEnd(s, i + 1) ELSE i

\* $ of a pattern compiled without flags: the end of the string, or the
\* position of a newline that ends the string.
DollarAt(s, i) == i = Len(s) + 1 \/ (i = Len(s) /\ s[i] = "\n")

\* ://eprel\.ec\.europa\.eu/qr/(\d+)$ from position i: the span of the group,
\* or << >> where the pattern does not match.
RestAt(s, i) ==
    IF ~ LiteralAt(s, i, QrHost) THEN << >>
    ELSE LET d == i + Len(QrHost)
             e == DigitsEnd(s, d) IN
           IF e > d /\ DollarAt(s, e) THEN << d, e - 1 >> ELSE << >>

\* EPREL_QR_URL_PATTERN.match(qr_url): ^http at the start, s? with the s
\* first and without it next, then the rest.
PatternMatch(s) ==
    IF ~ LiteralAt(s, 1, Http) THEN << >>
    ELSE LET i == 1 + Len(Http)
             withS == IF i <= Len(s) /\ s[i] = "s" THEN RestAt(s, i + 1) ELSE << >>
         IN IF withS /= << >> THEN withS ELSE RestAt(s, i)

NotCalled == [kind |-> "not called", chars |-> << >>]
NoId == [kind |-> "None", chars |-> << >>]
Id(s) == [kind |-> "str", chars |-> s]

\* Lines 68-71: match.group(1), or None
extract_eprel_id(s) ==
    LET match == PatternMatch(s) IN
      IF match /= << >> THEN Id(SubSeq(s, match[1], match[2])) ELSE NoId

\* A caller passes a string to extract_eprel_id; the model follows one call.
CallExtractEprelId ==
    /\ eprel_id = NotCalled
    /\ \E u \in QrUrls :
         /\ qr_url' = u
         /\ eprel_id' = extract_eprel_id(u)
    /\ UNCHANGED << elapsed, gap, calls, pc, api_key, headers, call, requestVars,
                    opResult, outputDir, labelFile, labelReply, gen, server,
                    yielded, listingCalls, threads, rate_sleep, programs >>

---------------------------------------------------------------------------
(* import_eprel.py: main and fetch_and_save *)

\* The single client and everything the scripts do not touch.
eprelClient == << elapsed, gap, calls, pc, api_key, headers, call, caller,
                 method, path, params, attempt, last_exception, wait_time,
                 outcomes, sleeps, reqResult, opResult, outputDir, labelFile,
                 labelReply, gen, server, yielded, listingCalls, threads,
                 qr_url, eprel_id, rate_sleep >>

\* --category values of the model: keys of PRODUCT_CATEGORIES, as the choices
\* of the argument parser require.
ImportCategories == {"lamps", "ovens"}

RECURSIVE SeqsUpTo(_, _)
SeqsUpTo(S, n) ==
    IF n = 0 THEN { << >> }
    ELSE LET shorter == SeqsUpTo(S, n - 1) IN
           shorter \cup { Append(s, x) : s \in shorter, x \in S }

\* main has not been called.
NoImport ==
    [pc |-> "start", categories |-> << >>, fetch_details |-> FALSE,
     index |-> 0, processed |-> << >>, all_product_ids |-> 0, detail |-> 0,
     products |-> 0, files |-> << >>, failed |-> << >>, client |-> "none",
     returned |-> None]

\* A plausible slip: no try around fetch_and_save, so the failure of a
\* category leaves the with block and main.
OnCategoryFailureAbort(m, kind) ==
    [m EXCEPT !.failed[m.index] = @ \cup {kind}, !.client = "closed", !.pc = "raised"]

\* Lines 222-225: except Exception logs the failure; the for loop goes on.
OnCategoryFailure(m, kind) ==
    [m EXCEPT !.failed[m.index] = @ \cup {kind}, !.pc = "loop"]

\* Lines 206-209: --category is required and may be given several times; the
\* client is made and entered.
MainStart ==
    /\ import_eprel.pc = "start"
    /\ \E cs \in SeqsUpTo(ImportCategories, MaxCategories) \ { << >> },
          d \in BOOLEAN :
         import_eprel' = [import_eprel EXCEPT !.categories = cs,
                                              !.fetch_details = d,
                                              !.client = "open",
                                              !.pc = "loop"]
    /\ UNCHANGED << eprelClient, run_import, clients >>

\* Lines 210-213 and 54-56: the next category of the for loop, and the entry
\* of fetch_and_save.
MainNextCategory ==
    /\ import_eprel.pc = "loop"
    /\ import_eprel.index < Len(import_eprel.categories)
    /\ import_eprel' =
         [import_eprel EXCEPT
            !.index = @ + 1,
            !.processed = Append(@, import_eprel.categories[import_eprel.index + 1]),
            !.files = Append(@, "none"),
            !.failed = Append(@, {}),
            !.all_product_ids = 0,
            !.detail = 0,
            !.products = 0,
            !.pc = "makedirs"]
    /\ UNCHANGED << eprelClient, run_import, clients >>

\* Line 54: os.makedirs(output_dir, exist_ok=True) makes the directory or
\* raises OSError.
FetchMakedirs ==
    /\ import_eprel.pc = "makedirs"
    /\ \/ import_eprel' = [import_eprel EXCEPT !.pc = "pages"]
       \/ import_eprel' = OnCategoryFailure(import_eprel, "makedirs")
    /\ UNCHANGED << eprelClient, run_import, clients >>

\* Lines 56-60 and 67-84: one demand on client.fetch_all_products: a batch,
\* which is added to all_product_ids; the end of the sequence; or the failure
\* of a page, which leaves fetch_and_save with what it had collected.
FetchPage ==
    /\ import_eprel.pc = "pages"
    /\ \/ /\ import_eprel.all_product_ids < MaxIds
          /\ import_eprel' = [import_eprel EXCEPT !.all_product_ids = @ + 1]
       \/ import_eprel' =
            IF import_eprel.fetch_details
            THEN [import_eprel EXCEPT !.pc = "details"]
            ELSE [import_eprel EXCEPT !.products = import_eprel.all_product_ids,
                                      !.pc = "save"]
       \/ import_eprel' = OnCategoryFailure(import_eprel, "pages")
    /\ UNCHANGED << eprelClient, run_import, clients >>

\* Lines 68-80: client.get_product for the next id; its failure is logged
\* inside fetch_and_save and the product is left out.
FetchDetail ==
    /\ import_eprel.pc = "details"
    /\ IF import_eprel.detail < import_eprel.all_product_ids
       THEN \/ import_eprel' = [import_eprel EXCEPT !.detail = @ + 1,
                                                    !.products = @ + 1]
            \/ import_eprel' =
                 [import_eprel EXCEPT !.detail = @ + 1,
                                      !.failed[import_eprel.index] = @ \cup {"detail"}]
       ELSE import_eprel' = [import_eprel EXCEPT !.pc = "save"]
    /\ UNCHANGED << eprelClient, run_import, clients >>

\* Lines 84-92, 95-113 and 116-138: the file is opened and written; open may
\* fail, and a failure of the write leaves the file as far as it was written.
FetchSave ==
    /\ import_eprel.pc = "save"
    /\ \/ import_eprel' = [import_eprel EXCEPT !.files[import_eprel.index] = "written",
                                                !.pc = "loop"]
       \/ import_eprel' = OnCategoryFailure(import_eprel, "open")
       \/ import_eprel' =
            OnCategoryFailure([import_eprel EXCEPT !.files[import_eprel.index] = "partial"],
                              "write")
    /\ UNCHANGED << eprelClient, run_import, clients >>

\* The end of the with block (EPRELClient.__exit__, lines 317-319: close).
MainLeave ==
    /\ import_eprel.pc = "loop"
    /\ import_eprel.index = Len(import_eprel.categories)
    /\ import_eprel' = [import_eprel EXCEPT !.client = "closed", !.pc = "exit"]
    /\ UNCHANGED << eprelClient, run_import, clients >>

\* Lines 227-228: return 0
MainReturn ==
    /\ import_eprel.pc = "exit"
    /\ import_eprel' = [import_eprel EXCEPT !.returned = 0, !.pc = "done"]
    /\ UNCHANGED << eprelClient, run_import, clients >>

---------------------------------------------------------------------------
(* serbian-prices: run_import.py and harvest_data.py *)

\* Exit codes of a script run by subprocess.run: success, an uncaught
\* exception or sys.exit(1), a command-line error, and the end by a signal.
Killed == 0 - 9
ExitCodes == {0, 1, 2, Killed}

\* harvest_data.main, lines 170-172 and 197: 1 when no dataset was found or a
\* download failed, else 0.
HarvestReturn(datasets, errors) ==
    IF datasets = 0 THEN 1 ELSE IF errors = 0 THEN 0 ELSE 1

\* A plausible slip: only the exit code 1 taken for a failure.
RunScriptOkUnlessOne(returncode) == returncode /= 1

\* run_script, lines 46-53: False when result.returncode != 0, else True.
RunScriptOk(returncode) == returncode = 0

\* main has not been called.
NoRun ==
    [pc |-> "start", test_only |-> FALSE, script |-> "none", started |-> << >>,
     codes |-> << >>, datasets |-> 0, downloaded |-> 0, errors |-> 0,
     returned |-> None]

\* Lines 57-78: the arguments are parsed and the first step is chosen.
RunStart ==
    /\ run_import.pc = "start"
    /\ \E t \in BOOLEAN :
         run_import' = [run_import EXCEPT
                          !.test_only = t,
                          !.script = IF t THEN "test_workflow.py" ELSE "harvest_data.py",
                          !.pc = "call"]
    /\ UNCHANGED << eprelClient, import_eprel, clients >>

\* run_script, lines 33-40: subprocess.run starts the script and waits for it.
ScriptStart ==
    /\ run_import.pc = "call"
    /\ run_import' = [run_import EXCEPT
                        !.started = Append(@, run_import.script),
                        !.pc = IF run_import.script = "harvest_data.py"
                               THEN "harvest_fetch" ELSE "running"]
    /\ UNCHANGED << eprelClient, import_eprel, clients >>

\* harvest_data.main, lines 168-172: the datasets are fetched; with none the
\* script ends at once.
HarvestFetch ==
    /\ run_import.pc = "harvest_fetch"
    /\ \E n \in 0..MaxDatasets :
         run_import' =
           IF n = 0
           THEN [run_import EXCEPT !.datasets = 0,
                                   !.codes = Append(@, HarvestReturn(0, 0)),
                                   !.pc = "ended"]
           ELSE [run_import EXCEPT !.datasets = n, !.pc = "harvest_download"]
    /\ UNCHANGED << eprelClient, import_eprel, clients >>

\* harvest_data.main, lines 175-197: every CSV resource is downloaded or
\* counted as an error, the metadata is saved and the exit code is computed;
\* or the script ends early, by an exception that nothing catches or by a
\* signal.
HarvestDownload ==
    /\ run_import.pc = "harvest_download"
    /\ \/ \E d \in 0..MaxResources, e \in 0..MaxResources :
            /\ d + e <= MaxResources
            /\ run_import' =
                 [run_import EXCEPT
                    !.downloaded = d,
                    !.errors = e,
                    !.codes = Append(@, HarvestReturn(run_import.datasets, e)),
                    !.pc = "ended"]
       \/ \E c \in {1, Killed} :
            run_import' = [run_import EXCEPT !.codes = Append(@, c), !.pc = "ended"]
    /\ UNCHANGED << eprelClient, import_eprel, clients >>

\* test_workflow.py or process_data.py ends with some exit code.
ScriptEnd ==
    /\ run_import.pc = "running"
    /\ \E c \in ExitCodes :
         run_import' = [run_import EXCEPT !.codes = Append(@, c), !.pc = "ended"]
    /\ UNCHANGED << eprelClient, import_eprel, clients >>

\* run_script returns and main (lines 72-91) returns 1, goes on to the
\* processing step, or returns 0.
RunScriptReturn ==
    /\ run_import.pc = "ended"
    /\ run_import' =
         IF ~ RunScriptOk(run_import.codes[Len(run_import.codes)])
         THEN [run_import EXCEPT !.returned = 1, !.pc = "done"]
         ELSE IF run_import.script = "harvest_data.py"
         THEN [run_import EXCEPT !.script = "process_data.py", !.pc = "call"]
         ELSE [run_import EXCEPT !.returned = 0, !.pc = "done"]
    /\ UNCHANGED << eprelClient, import_eprel, clients >>

---------------------------------------------------------------------------
(* Several EPRELClient instances *)

\* Two clients, each used by a thread of its own.
Instances == {"c1", "c2"}

\* EPRELClient.__init__, line 88: self._last_request_time = 0.0, long before
\* the clock's reading.
NewInstance ==
    [pc |-> "idle", sleep |-> 0, elapsed |-> ElapsedCap, gap |-> 0, calls |-> 0]

\* A plausible slip: the timestamp kept in the class or the module.
RecordedBySharing(i) == Instances

\* Line 117 assigns to self._last_request_time: the instances whose timestamp
\* a call through instance i records.
RecordedBy(i) == {i}

\* Instance i enters the loop of _request.
InstanceCall(i) ==
    /\ clients[i].pc = "idle"
    /\ clients' = [clients EXCEPT ![i].pc = "check"]
    /\ UNCHANGED << eprelClient, import_eprel, run_import >>

\* Lines 112-114 for instance i.
InstanceCheck(i) ==
    /\ clients[i].pc = "check"
    /\ clients' =
         [clients EXCEPT
            ![i].sleep = RateLimitSleep(clients[i].elapsed),
            ![i].pc = IF RateLimitSleep(clients[i].elapsed) > 0
                      THEN "sleeping" ELSE "record"]
    /\ UNCHANGED << eprelClient, import_eprel, run_import >>

\* time.sleep returns once the time asked for has passed.
InstanceWake(i) ==
    /\ clients[i].pc = "sleeping"
    /\ clients[i].sleep = 0
    /\ clients' = [clients EXCEPT ![i].pc = "record"]
    /\ UNCHANGED << eprelClient, import_eprel, run_import >>

\* Line 117 for instance i.
InstanceRecord(i) ==
    /\ clients[i].pc = "record"
    /\ clients' =
         [j \in Instances |->
            LET c == IF j \in RecordedBy(i)
                     THEN [clients[j] EXCEPT !.gap = clients[j].elapsed,
                                             !.calls = Min(@ + 1, 2),
                                             !.elapsed = 0]
                     ELSE clients[j] IN
              IF j = i THEN [c EXCEPT !.pc = "request"] ELSE c]
    /\ UNCHANGED << eprelClient, import_eprel, run_import >>

\* Lines 118-122 for instance i: the request is sent and answered.
InstanceRequest(i) ==
    /\ clients[i].pc = "request"
    /\ clients' = [clients EXCEPT ![i].pc = "idle"]
    /\ UNCHANGED << eprelClient, import_eprel, run_import >>

\* One tick of time passes for every instance.
InstancesTimePass ==
    /\ clients' = [j \in Instances |->
                     [clients[j] EXCEPT !.elapsed = Tick(@, 1),
                                        !.sleep = Max(@ - 1, 0)]]
    /\ UNCHANGED << eprelClient, import_eprel, run_import >>

---------------------------------------------------------------------------
(* Specification *)

\* EPRELClient.__init__, the clock at that time, the registry and the disk.
Init ==
    /\ elapsed \in 0..ElapsedCap
    /\ gap = 0
    /\ calls = 0
    /\ pc = "idle"
    /\ api_key \in ApiKeys
    /\ headers = SessionHeaders(api_key)
    /\ call = NoCall
    /\ caller = "none"
    /\ method = "none"
    /\ path = << >>
    /\ params = NoParams
    /\ attempt = 0
    /\ last_exception = NoException
    /\ wait_time = 0
    /\ outcomes = << >>
    /\ sleeps = << >>
    /\ reqResult = NoResult
    /\ opResult = NoResult
    /\ outputDir \in {"absent", "present"}
    /\ labelFile \in IF outputDir = "present" THEN {"absent", "old"} ELSE {"absent"}
    /\ labelReply = NoReply
    /\ gen = NoFrame
    /\ server \in [exact : BOOLEAN, total : 0..MaxTotal, partial : BOOLEAN]
    /\ yielded = << >>
    /\ listingCalls = 0
    /\ threads = [t \in Threads |-> AtRest]
    /\ qr_url = << >>
    /\ eprel_id = NotCalled
    /\ rate_sleep = 0
    /\ import_eprel = NoImport
    /\ run_import = NoRun
    /\ clients = [i \in Instances |-> NewInstance]

\* A caller that fetches products, lists pages and downloads labels, in any
\* order.
Next ==
    \/ CallGetProduct
    \/ GetProductReturn
    \/ CallListProducts
    \/ ListProductsDone
    \/ CallGetLabelUrl
    \/ CallDownloadLabel
    \/ LabelRateLimit
    \/ LabelSend
    \/ RateLimit
    \/ Send
    \/ Backoff

\* For this caller the registry is any registry.
ClientInit ==
    Init /\ server = [exact |-> FALSE, total |-> MaxTotal, partial |-> FALSE]

Spec == ClientInit /\ [][Next]_vars

\* A consumer of fetch_all_products.
PagesNext ==
    \/ CallFetchAll
    \/ GenStart
    \/ GenResume
    \/ ListProductsReturn
    \/ RateLimit
    \/ Send
    \/ Backoff

\* No label is downloaded by this consumer, and it has no API key; the
\* registry answers with whole documents.
PagesInit ==
    Init /\ outputDir = "absent" /\ api_key = NoneStr /\ ~ server.partial

PagesSpec == PagesInit /\ [][PagesNext]_vars

\* The consumer keeps consuming and every call in progress goes on.
FairPagesSpec == PagesSpec /\ WF_vars(PagesNext)

\* A consumer that may stop after any batch.
StoppingNext ==
    \/ PagesNext
    \/ GenAbandon

StoppingSpec == PagesInit /\ [][StoppingNext]_vars

\* A consumer that may also ask an ended sequence for more.
DemandingNext ==
    \/ StoppingNext
    \/ GenNextClosed

DemandingSpec == PagesInit /\ [][DemandingNext]_vars

\* A consumer of fetch_all_products against a registry that may leave fields
\* out of its listing documents.
PartialInit ==
    /\ Init
    /\ outputDir = "absent"
    /\ api_key = NoneStr
    /\ server.partial
    /\ ~ server.exact
    /\ server.total = MaxTotal

PartialSpec == PartialInit /\ [][PagesNext]_vars

\* A caller that uses the single operations and, after them, consumes page
\* sequences.
CallerNext ==
    \/ gen.state = "none" /\ Next
    \/ PagesNext

\* This caller has no API key.
CallerInit == ClientInit /\ api_key = NoneStr

CallerSpec == CallerInit /\ [][CallerNext]_vars

\* Two threads that share one client.
ThreadsNext ==
    \/ \E t \in Threads :
          \/ ThreadCall(t)
          \/ ThreadCheck(t)
          \/ ThreadWake(t)
          \/ ThreadRecord(t)
          \/ ThreadRequest(t)
    \/ TimePasses

\* A new client without a key, and nothing on the disk.
BareInit == ClientInit /\ api_key = NoneStr /\ outputDir = "absent"

ThreadsSpec == BareInit /\ [][ThreadsNext]_vars

\* import_eprel.main, with the client as the source of batches and failures.
ImportNext ==
    \/ MainStart
    \/ MainNextCategory
    \/ FetchMakedirs
    \/ FetchPage
    \/ FetchDetail
    \/ FetchSave
    \/ MainLeave
    \/ MainReturn

ImportSpec == BareInit /\ [][ImportNext]_vars

\* run_import.main and the scripts it runs.
RunNext ==
    \/ RunStart
    \/ ScriptStart
    \/ HarvestFetch
    \/ HarvestDownload
    \/ ScriptEnd
    \/ RunScriptReturn

RunSpec == BareInit /\ [][RunNext]_vars

\* Two client instances, used independently of each other.
InstancesNext ==
    \/ \E i \in Instances :
          \/ InstanceCall(i)
          \/ InstanceCheck(i)
          \/ InstanceWake(i)
          \/ InstanceRecord(i)
          \/ InstanceRequest(i)
    \/ InstancesTimePass

InstancesSpec == BareInit /\ [][InstancesNext]_vars

\* A caller of the module function extract_eprel_id.
UrlNext ==
    \/ CallExtractEprelId

UrlSpec == BareInit /\ [][UrlNext]_vars

---------------------------------------------------------------------------
(* Properties of the request loop *)

\* Kinds of outcome, as the HTTP protocol and the requests library name them.
SuccessOutcome(o) == o.exc = "none" /\ o.status \in 200..299 /\ o.json
RateLimitedOutcome(o) == o.exc = "none" /\ o.status = 429
ServerErrorOutcome(o) == o.exc = "none" /\ o.status >= 500
ClientErrorOutcome(o) == o.exc = "none" /\ o.status \in 400..499 /\ o.status /= 429
ConnectionFailureOutcome(o) == o.exc \in {"ConnectionError", "ConnectTimeout"}
TransportFailureOutcome(o) == o.exc \in TransportFailures
TransientOutcome(o) ==
    RateLimitedOutcome(o) \/ ServerErrorOutcome(o) \/ ConnectionFailureOutcome(o)

\* The exception that stands for the failure o met at attempt i.
FailureOf(o, i) ==
    Exception(IF o.exc = "none" THEN "HTTPError" ELSE o.exc, o.status, i)

Statuses(os) == [j \in 1..Len(os) |-> os[j].status]

\* C1: two consecutive outbound calls of one client (attempts of _request and
\* label downloads, in any order) are issued at least MIN_REQUEST_INTERVAL
\* apart, measured between the recorded timestamps.
C1_IssuanceGap == calls >= 2 => gap >= MIN_REQUEST_INTERVAL

\* A label download issued right after another call had to wait for the interval.
C1_Witness ==
    /\ calls = 2
    /\ gap = MIN_REQUEST_INTERVAL
    /\ opResult.doc.kind = "path"

\* C2: one _request makes at most MAX_RETRIES attempts; when all of them fail
\* transiently it raises the failure of the last attempt and returns nothing.
C2_BoundedAttemptsLastFailure ==
    /\ Len(outcomes) <= MAX_RETRIES
    /\ attempt <= MAX_RETRIES
    /\ ( /\ Len(outcomes) = MAX_RETRIES
         /\ \A j \in 1..Len(outcomes) : TransientOutcome(outcomes[j]) )
       => /\ pc \in {"backoff", "req_done"}
          /\ reqResult.kind /= "return"
          /\ pc = "req_done" =>
               reqResult = Raised(FailureOf(outcomes[MAX_RETRIES], MAX_RETRIES - 1))

\* Three different transient failures, the last one raised.
C2_Witness ==
    /\ pc = "req_done"
    /\ Len(outcomes) = MAX_RETRIES
    /\ Statuses(outcomes) = << 429, 500, 0 >>
    /\ outcomes[3].exc = "ConnectionError"
    /\ reqResult.exc = Exception("ConnectionError", 0, 2)

\* C3: when attempt k is the first to succeed, _request returns that body
\* after exactly k attempts and k - 1 backoff sleeps, then does nothing more;
\* 429, 429, 200 gives a result after 3 attempts and sleeps of 2 s and 4 s.
C3_ReturnsAtFirstSuccess ==
    /\ \A k \in 1..Len(outcomes) :
         SuccessOutcome(outcomes[k]) =>
           /\ Len(outcomes) = k
           /\ Len(sleeps) = k - 1
           /\ pc = "req_done"
           /\ reqResult = Returned(outcomes[k].body)
    /\ ( /\ Statuses(outcomes) = << 429, 429, 200 >>
         /\ outcomes[3].json )
       => /\ reqResult.kind = "return"
          /\ Len(sleeps) = 2
          /\ sleeps[1].secs = RETRY_DELAY_SECONDS * 1
          /\ sleeps[2].secs = RETRY_DELAY_SECONDS * 2

C3_Witness ==
    /\ Statuses(outcomes) = << 429, 429, 200 >>
    /\ reqResult.kind = "return"
    /\ reqResult.doc = ProductDoc
    /\ Len(sleeps) = 2

\* C4: a 4xx status other than 429, at any attempt, ends _request at once with
\* the failure carrying that status: no further attempt, no backoff sleep.
C4_ClientErrorNotRetried ==
    \A k \in 1..Len(outcomes) :
        ClientErrorOutcome(outcomes[k]) =>
          /\ Len(outcomes) = k
          /\ Len(sleeps) = k - 1
          /\ pc = "req_done"
          /\ reqResult = Raised(Exception("HTTPError", outcomes[k].status, k - 1))

\* A 404 at the second attempt, after one retried failure.
C4_Witness ==
    /\ Len(outcomes) = 2
    /\ outcomes[2].status = 404
    /\ reqResult.kind = "raise"
    /\ Len(sleeps) = 1

\* C5: a transport failure (connection failure, connect or read timeout) at an
\* attempt that is not the last is followed by the backoff sleep of that
\* attempt and another attempt; it is not propagated before the last attempt.
C5_TransportFailureRetried ==
    \A k \in 1..Len(outcomes) :
        (TransportFailureOutcome(outcomes[k]) /\ k < MAX_RETRIES) =>
          \/ /\ pc = "backoff"
             /\ Len(outcomes) = k
             /\ wait_time = RETRY_DELAY_SECONDS * Pow2(k - 1)
          \/ /\ Len(sleeps) >= k
             /\ sleeps[k].secs = RETRY_DELAY_SECONDS * Pow2(k - 1)
             /\ pc = "req_done" => Len(outcomes) > k

\* C6: the backoff sleep after a retryable failure at attempt index i is
\* RETRY_DELAY_SECONDS * 2^i (2, 4, 8 s), whatever the kind of failure and
\* whatever happened at earlier attempts.
C6_BackoffByAttemptIndex ==
    /\ \A j \in 1..Len(sleeps) :
         /\ sleeps[j].attempt = j - 1
         /\ sleeps[j].secs = RETRY_DELAY_SECONDS * Pow2(j - 1)
         /\ sleeps[j].secs = << 2, 4, 8 >>[j]
    /\ \A k \in 1..Len(outcomes) :
         TransientOutcome(outcomes[k]) =>
           \/ Len(sleeps) >= k
           \/ /\ pc = "backoff"
              /\ Len(sleeps) = k - 1
              /\ attempt = k - 1
              /\ wait_time = << 2, 4, 8 >>[k]

\* Three failures of three kinds, sleeps of 2, 4 and 8 seconds.
C6_Witness ==
    /\ Len(sleeps) = 3
    /\ Statuses(outcomes) = << 0, 429, 503 >>
    /\ sleeps[3].secs = 8

---------------------------------------------------------------------------
(* Properties of fetch_all_products *)

RECURSIVE Flatten(_)
Flatten(batches) ==
    IF batches = << >> THEN << >> ELSE Head(batches) \o Flatten(Tail(batches))

Lengths(batches) == [i \in 1..Len(batches) |-> Len(batches[i])]

Ended == gen.state = "closed" /\ gen.exit = "return"

\* C7: against a registry with a constant total T >= 1 that serves page p as
\* the items [p*size, min((p+1)*size, T)), with max_pages = None the generator
\* makes ceil(T/size) listing calls and yields as many batches, which are the
\* T items in order; size 2 and T = 3 give batches of 2 and 1 items.
C7_ExactRegistryAllPages ==
    (gen.state /= "none" /\ gen.max_pages = None /\ server.exact /\ server.total >= 1)
    => LET size == gen.page_size
           T == server.total
       IN /\ listingCalls <= CeilDiv(T, size)
          /\ Len(yielded) <= listingCalls
          /\ Flatten(yielded) = Items(0, Min(Len(yielded) * size, T))
          /\ Ended =>
               /\ listingCalls = CeilDiv(T, size)
               /\ Len(yielded) = CeilDiv(T, size)
               /\ Flatten(yielded) = Items(0, T)
          /\ (Ended /\ size = 2 /\ T = 3) => Lengths(yielded) = << 2, 1 >>

C7_Witness ==
    /\ Ended
    /\ gen.max_pages = None
    /\ server.exact
    /\ server.total = 3
    /\ yielded = << << 0, 1 >>, << 2 >> >>
    /\ listingCalls = 2

\* C8: a listing document with no hits ends the generator whatever total it
\* reports: that batch is not yielded and no listing call follows; an empty
\* first page gives no element at all.
C8_EmptyBatchState ==
    /\ \A i \in 1..Len(yielded) : yielded[i] /= << >>
    /\ (gen.result.kind = "listing" /\ gen.result.hits = << >>) =>
         /\ Ended
         /\ pc = "idle"
         /\ Len(yielded) = listingCalls - 1

C8_EmptyBatchEnds ==
    /\ []C8_EmptyBatchState
    /\ [][ gen.state = "closed" =>
             \/ gen'.state = "created"
             \/ (gen' = gen /\ listingCalls' = listingCalls /\ yielded' = yielded)
         ]_vars

\* An empty second page although the reported total says more is to come.
C8_Witness ==
    /\ gen.state = "closed"
    /\ gen.result.kind = "listing"
    /\ gen.result.hits = << >>
    /\ gen.result.total > (gen.page + 1) * gen.page_size
    /\ Len(yielded) = 1
    /\ listingCalls = 2

\* C9: with max_pages = m the generator yields at most m batches and makes at
\* most m listing calls; m = 1 and a first page with hits give one batch and
\* one call, m = 0 gives no batch and no call.
C9_MaxPagesCap ==
    (gen.state /= "none" /\ gen.max_pages /= None)
    => LET m == gen.max_pages
       IN /\ Len(yielded) <= m
          /\ listingCalls <= m
          /\ (m = 1 /\ gen.result.kind = "listing" /\ gen.result.hits /= << >>) =>
               /\ Len(yielded) = 1
               /\ listingCalls = 1
               /\ gen.state \in {"suspended", "closed"}
          /\ m = 0 =>
               /\ yielded = << >>
               /\ listingCalls = 0
               /\ gen.state \in {"created", "closed"}

\* One page of a longer listing, cut at max_pages = 1.
C9_Witness ==
    /\ Ended
    /\ gen.max_pages = 1
    /\ Len(yielded) = 1
    /\ listingCalls = 1
    /\ gen.result.total > gen.page_size

\* C10 as stated: with max_pages = None and every reported total at most T,
\* a consumer that keeps consuming sees the generator end, after at most
\* ceil(T/size) page fetches.
C10_Original ==
    /\ [](gen.max_pages = None =>
            listingCalls <= CeilDiv(server.total, gen.page_size))
    /\ (gen.state = "created" /\ gen.max_pages = None) ~> (gen.state = "closed")

\* C10, amended: the first page is always fetched, so the bound is
\* max(1, ceil(T/size)) page fetches.
C10_FiniteSequence ==
    /\ [](gen.max_pages = None =>
            listingCalls <= Max(1, CeilDiv(server.total, gen.page_size)))
    /\ (gen.state = "created" /\ gen.max_pages = None) ~> (gen.state = "closed")

\* A registry that is not exact, read to its last page.
C10_Witness ==
    /\ Ended
    /\ gen.max_pages = None
    /\ ~server.exact
    /\ listingCalls >= 2
    /\ listingCalls = CeilDiv(server.total, gen.page_size)

\* C11: the generator is lazy.  Between demands it has made one listing call
\* for each batch it yielded and is not inside a call; a listing call is made
\* only by a demand, while no call is in progress, and is the call for the
\* page after the batches yielded so far; while it runs exactly one listing
\* call is pending.  After the consumer stops, having received n batches,
\* n listing calls were made and no outbound call follows for that sequence.
C11_LazyPages ==
    /\ [] ( /\ gen.state = "suspended" =>
                  pc = "idle" /\ listingCalls = Len(yielded)
            /\ gen.state = "running" =>
                  pc /= "idle" /\ listingCalls = Len(yielded) + 1
            /\ gen.exit = "abandoned" =>
                  pc = "idle" /\ listingCalls = Len(yielded) )
    /\ [][ /\ listingCalls' = listingCalls + 1 =>
                 /\ pc = "idle"
                 /\ gen.state \in {"created", "suspended"}
                 /\ gen'.page = Len(yielded)
           /\ gen.exit = "abandoned" =>
                 /\ gen'.state = "created"
                 /\ UNCHANGED << elapsed, gap, calls, pc >> ]_vars

\* The consumer stopped after two batches of a longer sequence.
C11_Witness ==
    /\ gen.exit = "abandoned"
    /\ Len(yielded) = 2
    /\ listingCalls = 2
    /\ ~ FetchedAll(gen.page, gen.page_size, gen.result.total)

\* C12: when the fetch of page k ends in a failure, the failure reaches the
\* consumer and the sequence is over: k + 1 listing calls were made, the
\* batches of pages 0..k-1 were yielded and stay as they were, and nothing
\* more is requested for that sequence.
C12_PageFailurePropagates ==
    /\ [] ( gen.exit = "raise" =>
              /\ gen.state = "closed"
              /\ pc = "idle"
              /\ listingCalls = gen.page + 1
              /\ Len(yielded) = gen.page )
    /\ [][ /\ (pc = "req_done" /\ reqResult.kind = "raise") =>
                 /\ gen'.exit = "raise"
                 /\ gen'.page = gen.page
                 /\ opResult' = reqResult
                 /\ UNCHANGED << yielded, listingCalls >>
           /\ gen.exit = "raise" =>
                 /\ gen'.state = "created"
                 /\ UNCHANGED << elapsed, gap, calls, pc >> ]_vars

\* Page 1 failed with a 503 at every attempt, after page 0 was delivered.
C12_Witness ==
    /\ gen.exit = "raise"
    /\ gen.page = 1
    /\ Len(yielded) = 1
    /\ opResult.exc = Exception("HTTPError", 503, MAX_RETRIES - 1)

---------------------------------------------------------------------------
(* Properties of the category lookup *)

KnownCategory(category) == category \in DOMAIN PRODUCT_CATEGORIES

\* C13: every key of the catalog has a non-empty path, and get_product,
\* list_products, get_label_url and download_label fail with ValueError, at
\* once, exactly when their category is no key of the catalog.  (The catalog
\* is a constant of the module: no statement assigns to it.)
C13_LookupTotal ==
    /\ \A k \in DOMAIN PRODUCT_CATEGORIES : ~ NotPath(CategoryPath(k))
    /\ call.op \in {"get_product", "list_products", "get_label_url",
                    "download_label"} =>
         IF KnownCategory(call.category)
         THEN opResult /= Raised(ValueError)
         ELSE opResult = Raised(ValueError) /\ pc = "idle"

\* The path of smartphones, which is no key, was passed to get_label_url.
C13_Witness ==
    /\ call = Call("get_label_url", "smartphonestablets20231669")
    /\ opResult = Raised(ValueError)

\* The step of the caller is a call of op with an unknown category.
UnknownCategoryCall ==
    /\ pc = "idle"
    /\ call'.op \in {"get_product", "list_products", "download_label"}
    /\ ~ KnownCategory(call'.category)

\* What such a call leaves: the ValueError, and nothing else changed.
SurfacedAtOnce ==
    /\ opResult' = Raised(ValueError)
    /\ pc' = "idle"
    /\ UNCHANGED << elapsed, gap, calls, outcomes, sleeps, attempt, outputDir,
                    labelFile >>

\* C14 as stated: every first demand on a sequence with an unknown category
\* surfaces the ValueError.
C14_Original ==
    [][ /\ UnknownCategoryCall => SurfacedAtOnce
        /\ ( /\ pc = "idle"
             /\ gen.state = "created"
             /\ gen'.state /= "created"
             /\ ~ KnownCategory(gen.category) ) => SurfacedAtOnce ]_vars

\* C14: get_product, list_products and download_label called with an unknown
\* category, and the first demand on a sequence of fetch_all_products with an
\* unknown category and max_pages None or at least 1, end at once with the
\* ValueError: no call is recorded or sent, no sleep is taken, no attempt is
\* made, and neither output_dir nor the label file is created.
C14_UnknownCategoryAtOnce ==
    [][ /\ UnknownCategoryCall => SurfacedAtOnce
        /\ ( /\ pc = "idle"
             /\ gen.state = "created"
             /\ gen'.state /= "created"
             /\ ~ KnownCategory(gen.category)
             /\ (gen.max_pages = None \/ gen.max_pages >= 1) ) => SurfacedAtOnce ]_vars

\* download_label with an unknown category after a call was sent, with no
\* output directory yet.
C14_Witness ==
    /\ call = Call("download_label", "phones")
    /\ opResult = Raised(ValueError)
    /\ outputDir = "absent"
    /\ calls >= 1

---------------------------------------------------------------------------
(* Properties of download_label *)

\* C15: when the GET of download_label is answered with a status outside
\* 200..299, download_label returns None and leaves the label file as it was.
C15_NonSuccessGivesNone ==
    [][ ( /\ pc = "label_send"
          /\ labelReply'.exc = "none"
          /\ labelReply'.status \notin 200..299 )
        => /\ opResult' = Returned(NoneValue)
           /\ labelFile' = labelFile ]_vars

\* C16: download_label with a known category never raises.
C16_LabelNeverRaises ==
    (call.op = "download_label" /\ KnownCategory(call.category))
      => opResult.kind /= "raise"

---------------------------------------------------------------------------
(* Properties of a client shared by threads *)

\* C17: with several threads on one client, at most one thread at a time is
\* between the check of the timestamp and its recording, and two calls are
\* never recorded less than MIN_REQUEST_INTERVAL apart.
C17_SerializedPacing ==
    /\ Cardinality({ t \in Threads : threads[t].pc \in {"sleeping", "record"} }) <= 1
    /\ calls >= 2 => gap >= MIN_REQUEST_INTERVAL

---------------------------------------------------------------------------
(* Properties of extract_eprel_id *)

\* The URLs of the shape http(s)://eprel.ec.europa.eu/qr/ followed by the
\* digits d and nothing more.
QrUrlOf(d) == { Http \o QrHost \o d, Http \o << "s" >> \o QrHost \o d }

AllDigits(d) == Len(d) >= 1 /\ \A i \in 1..Len(d) : d[i] \in Digit

\* C18: extract_eprel_id returns the digits d exactly when its argument is
\* http or https, then ://eprel.ec.europa.eu/qr/, then d, one or more digits,
\* and nothing after them; for every other string it returns None.
C18_ExactShape ==
    eprel_id.kind /= "not called" =>
      \A d \in Strings(TailChars, MaxTail) :
        (eprel_id = Id(d)) <=> (AllDigits(d) /\ qr_url \in QrUrlOf(d))

---------------------------------------------------------------------------
(* Properties of list_products *)

\* The request of list_products for the page the generator is at.
ListingTarget ==
    /\ method = "GET"
    /\ path = << PRODUCT_CATEGORIES[gen.category] >>
    /\ params.from = gen.page * gen.page_size
    /\ params.size = gen.page_size

\* What list_products hands back is the body of the answer, as parsed.
ListingReturned ==
    /\ [] ( (pc = "req_done" /\ caller = "list_products"
               /\ reqResult.kind = "return")
            => /\ SuccessOutcome(outcomes[Len(outcomes)])
               /\ reqResult.doc = outcomes[Len(outcomes)].body )
    /\ [][ (pc = "req_done" /\ caller = "list_products"
              /\ reqResult.kind = "return")
           => gen'.result = reqResult.doc ]_vars

\* C19 as stated: one GET, with the query keys from and size and no other.
C19_Original ==
    /\ [] ( caller = "list_products" =>
              /\ ListingTarget
              /\ params.keys = {"from", "size"}
              /\ Len(outcomes) <= 1 )
    /\ ListingReturned

\* C19: list_products sends GET {base}/{segment}, once per attempt of the
\* request loop, with the query manufacturer = "", tradeMark = "",
\* from = page * page_size, size = page_size and no other key, and returns
\* the parsed document of the answer unchanged.
C19_ListingRequest ==
    /\ [] ( caller = "list_products" =>
              /\ ListingTarget
              /\ params.keys = {"manufacturer", "tradeMark", "from", "size"}
              /\ params.manufacturer = ""
              /\ params.tradeMark = "" )
    /\ ListingReturned

\* Page 1 of size 2 was answered at the second attempt.
C19_Witness ==
    /\ pc = "req_done"
    /\ caller = "list_products"
    /\ reqResult.kind = "return"
    /\ Len(reqResult.doc.hits) = 1
    /\ gen.page = 1
    /\ gen.page_size = 2
    /\ params.from = 2
    /\ Len(outcomes) = 2

---------------------------------------------------------------------------
(* Properties of the session *)

\* C20: the session's headers hold x-api-key exactly when the client was
\* made with a key (a non-empty string), and then with that key as value;
\* they always hold Accept: application/json; no operation changes them.
C20_SessionHeaders ==
    /\ [] ( /\ (\E p \in headers : p[1] = "x-api-key")
                 <=> api_key \notin {NoneStr, ""}
            /\ \A p \in headers : p[1] = "x-api-key" => p[2] = api_key
            /\ \A p \in headers : p[1] = "Accept" => p[2] = "application/json"
            /\ << "Accept", "application/json" >> \in headers )
    /\ [][ UNCHANGED << headers, api_key >> ]_vars

\* A client with a key has sent two calls and got an answer.
C20_Witness ==
    /\ << "x-api-key", "KEY" >> \in headers
    /\ calls = 2
    /\ opResult.kind = "return"

---------------------------------------------------------------------------
(* Properties of one invocation of fetch_all_products *)

\* C21: the k-th listing call of an invocation (k = 0, 1, ...) is the call
\* for page k, so the pages are requested in increasing order, none skipped
\* and none twice; a closed generator stays closed as it is; and every element
\* yielded is the whole batch of hits of the page just fetched, the i-th
\* element being that of page i - 1.
C21_PageOrder ==
    /\ [] ( gen.state \in {"running", "suspended"} =>
              /\ gen.page = listingCalls - 1
              /\ caller = "list_products" =>
                   params.from = (listingCalls - 1) * gen.page_size )
    /\ [][ /\ listingCalls' /= listingCalls =>
                \/ listingCalls' = listingCalls + 1 /\ gen'.page = listingCalls
                \/ gen'.state = "created" /\ listingCalls' = 0
           /\ gen.state = "closed" => (gen' = gen \/ gen'.state = "created")
           /\ (yielded' /= yielded /\ gen'.state /= "created") =>
                /\ pc = "req_done"
                /\ yielded' = Append(yielded, reqResult.doc.hits)
                /\ Len(yielded') = gen.page + 1 ]_vars

\* Two full pages of two items were fetched and yielded, and the sequence ended.
C21_Witness ==
    /\ Ended
    /\ listingCalls = 2
    /\ Lengths(yielded) = << 2, 2 >>
    /\ gen.page = 1

---------------------------------------------------------------------------
(* More properties of the request loop *)

\* C22: a backoff sleep is always followed by another attempt, so a request
\* takes at most MAX_RETRIES - 1 backoff sleeps, and exactly that many when
\* every attempt failed transiently.
C22_NoSleepAfterLastAttempt ==
    /\ Len(sleeps) <= MAX_RETRIES - 1
    /\ ( /\ pc = "req_done"
         /\ Len(outcomes) = MAX_RETRIES
         /\ \A j \in 1..Len(outcomes) : TransientOutcome(outcomes[j]) )
       => Len(sleeps) = MAX_RETRIES - 1

\* C23: every attempt of _request is made by a send step that follows a
\* rate-limit step.  The rate-limit step asks time.sleep for
\* max(0, MIN_REQUEST_INTERVAL - elapsed), which returns no earlier than that
\* and at most MaxDrift later, and changes no timestamp; the send step records
\* the timestamp just before the call, whatever comes back; no other step of
\* _request or of its callers changes the timestamp.
C23_RateLimitStep ==
    [][ /\ pc = "rate_limit" =>
             /\ pc' = "send"
             /\ rate_sleep' = Max(0, MIN_REQUEST_INTERVAL - elapsed)
             /\ elapsed' >= Tick(elapsed, rate_sleep')
             /\ elapsed' <= Tick(elapsed, rate_sleep' + MaxDrift)
             /\ UNCHANGED << gap, calls, outcomes >>
        /\ pc' = "send" => pc = "rate_limit"
        /\ pc = "send" =>
             /\ gap' = elapsed
             /\ calls' = Min(calls + 1, 2)
             /\ elapsed' \in Latencies
             /\ Len(outcomes') = Len(outcomes) + 1
        /\ Len(outcomes') > Len(outcomes) => pc = "send"
        /\ pc \notin {"send", "label_send"} =>
             /\ UNCHANGED << gap, calls >>
             /\ elapsed' >= elapsed ]_vars

\* A call made less than MIN_REQUEST_INTERVAL after the attempt before it has
\* slept for the rest of the interval and is about to send.
C23_Witness ==
    /\ pc = "send"
    /\ attempt = 0
    /\ rate_sleep > 0
    /\ rate_sleep < MIN_REQUEST_INTERVAL
    /\ calls = 2

UnparsableOutcome(o) == o.exc = "none" /\ ~RaisesForStatus(o.status) /\ ~o.json

\* C27: an attempt of _request answered with an accepted status and a body
\* that is not JSON is the last attempt: _request raises the decode error of
\* that attempt at once, having slept only after the attempts before it, and
\* returns no document.
C27_InvalidJsonSurfaced ==
    /\ [] ( \A j \in 1..Len(outcomes) :
              UnparsableOutcome(outcomes[j]) =>
                /\ j = Len(outcomes)
                /\ pc = "req_done"
                /\ reqResult = Raised(Exception("JSONDecodeError", 0, j - 1))
                /\ reqResult.doc = NoDoc
                /\ Len(sleeps) = j - 1 )
    /\ [][ ( /\ pc = "send"
             /\ Len(outcomes') = Len(outcomes) + 1
             /\ UnparsableOutcome(outcomes'[Len(outcomes')]) )
           => /\ pc' = "req_done"
              /\ UNCHANGED << sleeps, attempt, wait_time >> ]_vars

\* _request has raised the decode error of its second attempt, made after a
\* 503 and its backoff sleep.
C27_Witness ==
    /\ pc = "req_done"
    /\ Len(outcomes) = 2
    /\ outcomes[1].status = 503
    /\ outcomes[2].status = 200
    /\ UnparsableOutcome(outcomes[2])
    /\ reqResult.exc.type = "JSONDecodeError"
    /\ Len(sleeps) = 1

\* C26: a new invocation of fetch_all_products has nothing of an earlier one
\* (page 0, no result), and its first demand lists page 0 as the first
\* listing call; a demand on a sequence that has returned, raised or been
\* closed gives StopIteration, yields nothing, makes no call and leaves the
\* sequence as it is.
C26_NoRestart ==
    /\ [] ( (gen.state = "created") =>
              /\ gen.page = 0
              /\ gen.result = NoFrame.result
              /\ listingCalls = 0
              /\ yielded = << >> )
    /\ [][ /\ (gen.state = "created" /\ gen' /= gen) =>
                /\ gen'.page = 0
                /\ gen'.state = "running" =>
                     (listingCalls' = 1 /\ params'.from = 0 /\ pc' = "rate_limit")
           /\ (gen.state = "closed" /\ gen'.state /= "created") =>
                /\ UNCHANGED << gen, yielded, listingCalls, pc, gap, calls,
                                elapsed, outcomes, caller >>
                /\ opResult' /= opResult => opResult' = Raised(StopIteration) ]_vars

\* A sequence whose page failed was asked for more, which gave StopIteration;
\* the invocation made after it on the same client is at its beginning.
C26_Witness ==
    /\ gen.state = "created"
    /\ gen.page = 0
    /\ opResult = Raised(StopIteration)
    /\ calls = 2
    /\ listingCalls = 0

\* A listing document came back to the generator.
ListingCameBack ==
    pc = "req_done" /\ caller = "list_products" /\ reqResult.kind = "return"

\* C28: a listing document without 'hits' ends the sequence with nothing yielded
\* for its page; a document with a non-empty 'hits' and without 'total' has
\* its batch yielded, and the demand after it ends the sequence with no
\* further listing call.
C28_MissingFields ==
    [][ /\ (ListingCameBack /\ "hits" \notin DOMAIN reqResult.doc) =>
             /\ gen'.state = "closed"
             /\ gen'.exit = "return"
             /\ UNCHANGED << yielded, listingCalls >>
        /\ ( /\ ListingCameBack
             /\ "hits" \in DOMAIN reqResult.doc
             /\ reqResult.doc.hits /= << >>
             /\ "total" \notin DOMAIN reqResult.doc ) =>
             /\ gen'.state = "suspended"
             /\ yielded' = Append(yielded, reqResult.doc.hits)
        /\ ( /\ gen.state = "suspended"
             /\ "total" \notin DOMAIN gen.result
             /\ gen' /= gen ) =>
             /\ gen'.state = "closed"
             /\ gen'.exit = "return"
             /\ pc' = "idle"
             /\ UNCHANGED << yielded, listingCalls, gap, calls >> ]_vars

\* The first page had one item and no 'total': one batch, one listing call,
\* and the sequence has ended.
C28_Witness ==
    /\ Ended
    /\ gen.page_size = 2
    /\ gen.max_pages = None
    /\ "total" \notin DOMAIN gen.result
    /\ "hits" \in DOMAIN gen.result
    /\ yielded = << << 0 >> >>
    /\ listingCalls = 1

\* Category i of import_eprel has been dealt with.
CategoryOver(i) ==
    i < import_eprel.index \/ import_eprel.pc \in {"loop", "exit", "done"}

\* C29 as stated: a category in whose processing something failed has no
\* output file.
C29_Original ==
    \A i \in 1..import_eprel.index :
      (import_eprel.failed[i] /= {} /\ CategoryOver(i)) => import_eprel.files[i] = "none"

\* C29: import_eprel.main takes the categories one after another in the order
\* given; a failure that leaves fetch_and_save before the output file is
\* opened (makedirs, a page of the listing, open) is caught by main and the
\* category has no output file; after any failure main goes on with the next
\* category; main ends only after every category, with the client closed and
\* 0 returned.
C29_CategoriesIsolated ==
    /\ [] ( /\ import_eprel.index <= Len(import_eprel.categories)
            /\ import_eprel.processed =
                 SubSeq(import_eprel.categories, 1, import_eprel.index)
            /\ \A i \in 1..import_eprel.index :
                 import_eprel.failed[i] \cap {"makedirs", "pages", "open"} /= {}
                   => import_eprel.files[i] = "none"
            /\ import_eprel.pc \in {"exit", "done"} =>
                 /\ import_eprel.index = Len(import_eprel.categories)
                 /\ import_eprel.client = "closed"
            /\ import_eprel.returned \in {None, 0}
            /\ import_eprel.returned /= None <=> import_eprel.pc = "done"
            /\ import_eprel.pc /= "raised" )
    /\ [][ /\ import_eprel'.index /= import_eprel.index =>
                /\ import_eprel.pc = "loop"
                /\ import_eprel'.index = import_eprel.index + 1
           /\ (import_eprel.index > 0 /\ import_eprel'.index = import_eprel.index
               /\ import_eprel'.failed[import_eprel.index]
                    \cap {"makedirs", "pages", "open", "write"}
                  /= import_eprel.failed[import_eprel.index]
                       \cap {"makedirs", "pages", "open", "write"})
                => /\ import_eprel'.pc = "loop"
                   /\ import_eprel'.client = "open" ]_vars

\* The first of two categories failed at a page of its listing, the second
\* was saved: no file for the first, the client closed, 0 returned.
C29_Witness ==
    /\ import_eprel.pc = "done"
    /\ Len(import_eprel.categories) = 2
    /\ import_eprel.failed = << {"pages"}, {} >>
    /\ import_eprel.files = << "none", "written" >>
    /\ import_eprel.client = "closed"
    /\ import_eprel.returned = 0

\* C30: without --test-only, process_data.py is started only after
\* harvest_data.py, the first script started, has ended with exit code 0; a
\* harvest that found no dataset or had a download fail ends with a non-zero
\* code; after a non-zero code of the harvest nothing more is started and main
\* returns 1; main returns 0 only when every script it started ended with 0.
C30_StepsInOrder ==
    /\ [] ( LET r == run_import IN
            /\ Len(r.codes) <= Len(r.started)
            /\ Len(r.started) <= Len(r.codes) + 1
            /\ ~ r.test_only =>
                 /\ \A k \in 1..Len(r.started) :
                      r.started[k] = "process_data.py" =>
                        /\ k = 2
                        /\ r.started[1] = "harvest_data.py"
                        /\ r.codes[1] = 0
                 /\ (Len(r.codes) >= 1 /\ (r.datasets = 0 \/ r.errors > 0)) =>
                      r.codes[1] /= 0
                 /\ (Len(r.codes) >= 1 /\ r.codes[1] /= 0) =>
                      /\ r.started = << "harvest_data.py" >>
                      /\ r.pc \in {"ended", "done"}
                      /\ r.pc = "done" => r.returned = 1
            /\ r.returned = 0 =>
                 /\ Len(r.codes) = Len(r.started)
                 /\ \A k \in 1..Len(r.codes) : r.codes[k] = 0
            /\ r.pc = "done" <=> r.returned /= None
            /\ r.returned \in {None, 0, 1} )
    /\ [][ (run_import.pc = "ended" /\ run_import.codes[Len(run_import.codes)] /= 0)
             => (run_import'.pc = "done" /\ run_import'.returned = 1) ]_vars

\* The harvest downloaded one file and failed on another: it ended with 1,
\* nothing was started after it and main returned 1.
C30_Witness ==
    /\ run_import.pc = "done"
    /\ ~ run_import.test_only
    /\ run_import.downloaded = 1
    /\ run_import.errors = 1
    /\ run_import.started = << "harvest_data.py" >>
    /\ run_import.codes = << 1 >>
    /\ run_import.returned = 1

\* C25: the timestamp of an instance (gap, calls, and elapsed starting again)
\* changes only in that instance's own record step, whatever the other
\* instance does; so each instance keeps its own pacing, and an instance whose
\* own last call is MIN_REQUEST_INTERVAL or more ago is not made to sleep by
\* a call through the other.
C25_PacingPerInstance ==
    /\ [] ( \A j \in Instances :
              /\ clients[j].calls >= 2 => clients[j].gap >= MIN_REQUEST_INTERVAL
              /\ clients[j].pc = "sleeping" => clients[j].calls >= 1
              /\ clients[j].sleep <= MIN_REQUEST_INTERVAL )
    /\ [][ \A j \in Instances :
             /\ ( \/ clients'[j].gap /= clients[j].gap
                  \/ clients'[j].calls /= clients[j].calls
                  \/ clients'[j].elapsed < clients[j].elapsed )
                => (clients[j].pc = "record" /\ clients'[j].pc = "request")
             /\ (clients[j].pc = "check" /\ clients'[j].pc /= "check") =>
                  clients'[j].sleep = Max(0, MIN_REQUEST_INTERVAL - clients[j].elapsed)
             /\ clients[j].pc /= "check" =>
                  clients'[j].sleep <= clients[j].sleep ]_vars

\* c2 has just recorded its first call with no wait, at the time c1 recorded
\* its own second call.
C25_Witness ==
    /\ clients["c1"].calls = 2
    /\ clients["c1"].elapsed = 0
    /\ clients["c2"].pc = "request"
    /\ clients["c2"].calls = 1
    /\ clients["c2"].elapsed = 0
    /\ clients["c2"].gap = ElapsedCap

====
